---- MODULE Spec2Model ----
(***************************************************************************)
(* Bin-packing priority functions of the scheduler:                        *)
(*   ResourceBinPackingPriorityMap        (the generic scorer)             *)
(*   ScarceResourceBinPackingPriorityMap  (scarce_resource_bin_packing.go) *)
(* A quantity is held as its milli-value (resource.Quantity); a resource   *)
(* list is a function from the resource names it holds to quantities.      *)
(***************************************************************************)
EXTENDS Integers, Sequences, FiniteSets, TLC

VARIABLES
    resource,       \* the name both prioritizers were constructed with
    pod,            \* the pod to place
    nodeInfo,       \* the NodeInfo snapshot of the candidate node
    genericResult,  \* what ResourceBinPackingPriorityMap last returned
    genericCalc,    \* the locals of its calculateScareResourceScore
    scarceResult,   \* what ScarceResourceBinPackingPriorityMap last returned
    scarceCalc,     \* the locals of its calculateScareResourceScore
    scorer,         \* the prioritizer a scoring pass runs ("none": no pass)
    calls,          \* per machine of a pass: the pod and NodeInfo of its call
    pc,             \* per machine: the statement its call has reached
    locals,         \* per machine: the locals of calculateScareResourceScore
    results,        \* per machine: what its call last returned
    runs,           \* per machine: how often its call was started
    mainPc,         \* iso-client: the statement main has reached
    servePc,        \* iso-client: the goroutine running server.Serve
    sigPc,          \* iso-client: the goroutine running HandleSIGTERM
    isolator,       \* iso-client: whether RegisterIsolator succeeded
    client,         \* iso-client: the eventDispatcherClient
    wg,             \* iso-client: the counter of main's WaitGroup
    serveWg,        \* iso-client: the counter of the WaitGroup Serve holds
    sigChan,        \* iso-client: signals buffered in the channel c
    process,        \* iso-client: how the process ended, if it did
    cfgPc,          \* KubeletConfig: the statement the call has reached
    oldCfg,         \* KubeletConfig: the configuration pointed to by oldCfg
    newCfg,         \* KubeletConfig: the configuration pointed to by newCfg
    maps,           \* KubeletConfig: the maps on the heap, by reference
    returned        \* KubeletConfig: what the call returned

callVars ==
    <<resource, pod, nodeInfo, genericResult, genericCalc, scarceResult, scarceCalc>>

passVars == <<scorer, calls, pc, locals, results, runs>>

mainVars ==
    <<mainPc, servePc, sigPc, isolator, client, wg, serveWg, sigChan, process>>

cfgVars == <<cfgPc, oldCfg, newCfg, maps, returned>>

\* the variables of the programs beside the scheduler's priority functions
otherVars == <<mainVars, cfgVars>>

vars == <<callVars, passVars, otherVars>>

----------------------------------------------------------------------------
(* Bounds of the model *)

\* regular plus init containers of the pod to place
MaxPodContainers == 3

\* pods already bound to the node
MaxBoundPods == 1

\* largest request of one container, in whole units
MaxUnits == 2

\* times one call of a scoring pass is made
MaxRuns == 2

\* schedulerapi.MaxPriority
MaxPriority == 10

----------------------------------------------------------------------------
(* resource.Quantity and v1.ResourceList *)

EmptyList == [x \in {} |-> 0]

\* Quantity.Value(): the value in whole units, rounded up
Value(q) == (q + 999) \div 1000

\* Quantity.MilliValue()
MilliValue(q) == q

\* Go map lookup m[k]: the zero value when k is absent
MapGet(m, k) == IF k \in DOMAIN m THEN m[k] ELSE 0

----------------------------------------------------------------------------
(* Results of a call: (HostPriority, error), or a run-time panic *)

NoResult == [state |-> "none", Host |-> "", Score |-> 0, err |-> "nil"]

\* mutant: the HostPriority is returned without its Host
ReturnedWithoutHost(host, score) ==
    [state |-> "returned", Host |-> "", Score |-> score, err |-> "nil"]

Returned(host, score) ==
    [state |-> "returned", Host |-> host, Score |-> score, err |-> "nil"]

\* return schedulerapi.HostPriority{}, fmt.Errorf(msg)
Failed(msg) == [state |-> "returned", Host |-> "", Score |-> 0, err |-> msg]

\* Go's integer division by zero panics; nothing is returned
Panicked ==
    [state |-> "panicked", Host |-> "", Score |-> 0,
     err |-> "integer divide by zero"]

\* calculateScareResourceScore was not entered
NoCalc ==
    [called |-> FALSE, usedResource |-> 0, reqResource |-> 0, available |-> 0]

Calc(used, req, avail) ==
    [called |-> TRUE, usedResource |-> used, reqResource |-> req,
     available |-> avail]

\* ((usedResource + reqResource) * schedulerapi.MaxPriority) / available
divisionPanics(calc) == calc.available = 0

\* mutant: the score of the least-requested priority, which prefers the
\* node with the most left over
leastRequestedScoreOf(calc) ==
    ((calc.available - calc.usedResource - calc.reqResource) * MaxPriority)
        \div calc.available

scoreOf(calc) ==
    ((calc.usedResource + calc.reqResource) * MaxPriority) \div calc.available

----------------------------------------------------------------------------
(* Generic scorer *)

\* mutant: an entry for the resource opens the gate, whatever its quantity
containerDeclaresResource(container, res) ==
    res \in DOMAIN container.Requests \/ res \in DOMAIN container.Limits

containerRequestsResource(container, res) ==
    \/ \E resName \in DOMAIN container.Requests :
          resName = res /\ MilliValue(container.Requests[resName]) > 0
    \/ \E resName \in DOMAIN container.Limits :
          resName = res /\ MilliValue(container.Limits[resName]) > 0

RECURSIVE anyContainerRequests(_, _)
anyContainerRequests(containers, res) ==
    IF containers = <<>> THEN FALSE
    ELSE IF containerRequestsResource(Head(containers), res) THEN TRUE
    ELSE anyContainerRequests(Tail(containers), res)

podRequestsResource(podSpec, res) ==
    IF anyContainerRequests(podSpec.InitContainers, res) THEN TRUE
    ELSE anyContainerRequests(podSpec.Containers, res)

\* mutant: each request replaces the total instead of adding to it
RECURSIVE lastRequest(_, _, _)
lastRequest(containers, res, acc) ==
    IF containers = <<>> THEN acc
    ELSE LET container == Head(containers)
         IN  lastRequest(Tail(containers), res,
                 IF res \in DOMAIN container.Requests
                 THEN Value(container.Requests[res])
                 ELSE acc)

\* for _, container := range ... { if q, ok := Requests[resource]; ok { acc += q.Value() } }
RECURSIVE sumRequests(_, _, _)
sumRequests(containers, res, acc) ==
    IF containers = <<>> THEN acc
    ELSE LET container == Head(containers)
         IN  sumRequests(Tail(containers), res,
                 IF res \in DOMAIN container.Requests
                 THEN acc + Value(container.Requests[res])
                 ELSE acc)

usedResourceOf(ni, res) ==
    IF res = "cpu" THEN ni.requestedResource.MilliCPU
    ELSE IF res = "storage" THEN ni.requestedResource.Memory
    ELSE IF res = "ephemeral-storage" THEN ni.requestedResource.EphemeralStorage
    ELSE MapGet(ni.requestedResource.ScalarResources, res)

reqResourceOf(p, res) ==
    LET reqResource == sumRequests(p.Spec.Containers, res, 0)
        reqResourceInit == sumRequests(p.Spec.InitContainers, res, 0)
    IN  IF reqResourceInit > reqResource THEN reqResourceInit ELSE reqResource

\* mutant: the divisor is the node's allocatable memory
calculateScoreOverMemory(ni, p, res) ==
    Calc(usedResourceOf(ni, res), reqResourceOf(p, res), ni.allocatableResource.Memory)

\* the locals of calculateScareResourceScore at its return statement
calculateScareResourceScore(ni, p, res) ==
    Calc(usedResourceOf(ni, res), reqResourceOf(p, res),
         MapGet(ni.allocatableResource.ScalarResources, res))

\* mutant: no check of the resource name
PriorityMapCallWithoutNameCheck(res, p, ni) ==
    IF ni.node.nil
    THEN [result |-> Failed("node not found"), calc |-> NoCalc]
    ELSE IF ~podRequestsResource(p.Spec, res)
    THEN [result |-> Returned(ni.node.Name, 0), calc |-> NoCalc]
    ELSE LET calc == calculateScareResourceScore(ni, p, res)
         IN  [result |-> IF divisionPanics(calc) THEN Panicked
                         ELSE Returned(ni.node.Name, scoreOf(calc)),
              calc |-> calc]

\* mutant: the node is checked before the resource name
PriorityMapCallNodeFirst(res, p, ni) ==
    IF ni.node.nil
    THEN [result |-> Failed("node not found"), calc |-> NoCalc]
    ELSE IF Len(res) = 0
    THEN [result |-> Failed("resource not defined"), calc |-> NoCalc]
    ELSE IF ~podRequestsResource(p.Spec, res)
    THEN [result |-> Returned(ni.node.Name, 0), calc |-> NoCalc]
    ELSE LET calc == calculateScareResourceScore(ni, p, res)
         IN  [result |-> IF divisionPanics(calc) THEN Panicked
                         ELSE Returned(ni.node.Name, scoreOf(calc)),
              calc |-> calc]

\* the (HostPriority, error) returned, with the locals of the score calculation
ResourceBinPackingPriorityMapCall(res, p, ni) ==
    IF Len(res) = 0
    THEN [result |-> Failed("resource not defined"), calc |-> NoCalc]
    ELSE IF ni.node.nil
    THEN [result |-> Failed("node not found"), calc |-> NoCalc]
    ELSE IF ~podRequestsResource(p.Spec, res)
    THEN [result |-> Returned(ni.node.Name, 0), calc |-> NoCalc]
    ELSE LET calc == calculateScareResourceScore(ni, p, res)
         IN  [result |-> IF divisionPanics(calc) THEN Panicked
                         ELSE Returned(ni.node.Name, scoreOf(calc)),
              calc |-> calc]

----------------------------------------------------------------------------
(* Scarce scorer *)

scarceContainerRequestsResource(container, res) ==
    \/ \E resName \in DOMAIN container.Requests :
          resName = res /\ MilliValue(container.Requests[resName]) > 0
    \/ \E resName \in DOMAIN container.Limits :
          resName = res /\ MilliValue(container.Limits[resName]) > 0

RECURSIVE scarceAnyContainerRequests(_, _)
scarceAnyContainerRequests(containers, res) ==
    IF containers = <<>> THEN FALSE
    ELSE IF scarceContainerRequestsResource(Head(containers), res) THEN TRUE
    ELSE scarceAnyContainerRequests(Tail(containers), res)

\* mutant: only the regular containers are looked at
scarceRegularContainersRequest(podSpec, res) ==
    scarceAnyContainerRequests(podSpec.Containers, res)

scarcePodRequestsResource(podSpec, res) ==
    IF scarceAnyContainerRequests(podSpec.InitContainers, res) THEN TRUE
    ELSE scarceAnyContainerRequests(podSpec.Containers, res)

\* mutant: the requests are added in milli-units
RECURSIVE scarceSumMilliRequests(_, _, _)
scarceSumMilliRequests(containers, res, acc) ==
    IF containers = <<>> THEN acc
    ELSE LET container == Head(containers)
         IN  scarceSumMilliRequests(Tail(containers), res,
                 IF res \in DOMAIN container.Requests
                 THEN acc + MilliValue(container.Requests[res])
                 ELSE acc)

RECURSIVE scarceSumRequests(_, _, _)
scarceSumRequests(containers, res, acc) ==
    IF containers = <<>> THEN acc
    ELSE LET container == Head(containers)
         IN  scarceSumRequests(Tail(containers), res,
                 IF res \in DOMAIN container.Requests
                 THEN acc + Value(container.Requests[res])
                 ELSE acc)

\* for _, pod := range nodeInfo.Pods() { for _, container := range pod.Spec.Containers ...
RECURSIVE scarceUsedResource(_, _, _)
scarceUsedResource(pods, res, acc) ==
    IF pods = <<>> THEN acc
    ELSE scarceUsedResource(Tail(pods), res,
             scarceSumRequests(Head(pods).Spec.Containers, res, acc))

\* mutant: the request is taken off the used amount
scarceCalculateWithRequestTakenOff(ni, containers, res) ==
    Calc(scarceUsedResource(ni.pods, res, 0), 0 - scarceSumRequests(containers, res, 0),
         MapGet(ni.allocatableResource.ScalarResources, res))

scarceCalculateScareResourceScore(ni, containers, res) ==
    Calc(scarceUsedResource(ni.pods, res, 0), scarceSumRequests(containers, res, 0),
         MapGet(ni.allocatableResource.ScalarResources, res))

\* mutant: a snapshot without node is scored 0
ScarcePriorityMapCallDefaultingNode(res, p, ni) ==
    IF ni.node.nil \/ ~scarcePodRequestsResource(p.Spec, res)
    THEN [result |-> Returned(ni.node.Name, 0), calc |-> NoCalc]
    ELSE LET calc == scarceCalculateScareResourceScore(ni, p.Spec.Containers, res)
         IN  [result |-> IF divisionPanics(calc) THEN Panicked
                         ELSE Returned(ni.node.Name, scoreOf(calc)),
              calc |-> calc]

ScarceResourceBinPackingPriorityMapCall(res, p, ni) ==
    IF ni.node.nil
    THEN [result |-> Failed("node not found"), calc |-> NoCalc]
    ELSE IF ~scarcePodRequestsResource(p.Spec, res)
    THEN [result |-> Returned(ni.node.Name, 0), calc |-> NoCalc]
    ELSE LET calc == scarceCalculateScareResourceScore(ni, p.Spec.Containers, res)
         IN  [result |-> IF divisionPanics(calc) THEN Panicked
                         ELSE Returned(ni.node.Name, scoreOf(calc)),
              calc |-> calc]

----------------------------------------------------------------------------
(* Inputs: the pods and node snapshots the priority stage hands over *)

ExtendedResource == "intel.com/foo"

BuiltinNames == {"cpu", "memory", "storage", "ephemeral-storage"}

ResourceNames == {"", ExtendedResource} \cup BuiltinNames

\* the resource name the pods and nodes of a run carry
KeyOf(res) == IF res = "" THEN ExtendedResource ELSE res

NoResources == [Requests |-> EmptyList, Limits |-> EmptyList]

Requesting(k, milli) == [Requests |-> (k :> milli), Limits |-> EmptyList]

Limited(k, milli) == [Requests |-> EmptyList, Limits |-> (k :> milli)]

\* a built-in dimension may be requested in fractions of a unit
ContainerSpecs(k) ==
    {NoResources, Limited(k, 1000)}
    \cup {Requesting(k, 1000 * u) : u \in 0 .. MaxUnits}
    \cup (IF k \in BuiltinNames THEN {Requesting(k, 500)} ELSE {})

InitContainerSpecs(k) ==
    {Limited(k, 1000)} \cup {Requesting(k, 1000 * u) : u \in 1 .. MaxUnits}

SeqsOfLen(S, n) == [1 .. n -> S]

Pods(k) ==
    {[Spec |-> [Containers |-> cs, InitContainers |-> ics]] :
        <<cs, ics>> \in UNION {SeqsOfLen(ContainerSpecs(k), n)
                                 \X SeqsOfLen(InitContainerSpecs(k), m) :
                               <<n, m>> \in {nm \in (0 .. MaxPodContainers)
                                                   \X (0 .. MaxPodContainers) :
                                             nm[1] + nm[2] <= MaxPodContainers}}}

\* a pod bound to the node: machine2Pod of the test for an extended resource
BoundPod(k) ==
    [Spec |->
        [Containers |->
            <<IF k \in BuiltinNames
              THEN [Requests |-> ("cpu" :> 1000 @@ "memory" :> 3000000
                                  @@ "ephemeral-storage" :> 2000000),
                    Limits |-> EmptyList]
              ELSE Requesting(k, 2000)>>,
         InitContainers |-> <<>>]]

Nodes ==
    {[nil |-> TRUE, Name |-> ""], [nil |-> FALSE, Name |-> "machine1"],
     [nil |-> FALSE, Name |-> "machine2"]}

\* makeNodeScarceResource: only extended resources enter ScalarResources
AllocatableResources(k) ==
    {[MilliCPU |-> 4000, Memory |-> 10000, EphemeralStorage |-> 8000,
      ScalarResources |-> s] :
        s \in IF k \in BuiltinNames THEN {EmptyList}
              ELSE {EmptyList} \cup {(k :> a) : a \in {0, 4, 8}}}

RECURSIVE SumPods(_, _, _)
SumPods(pods, k, milli) ==
    IF pods = <<>> THEN 0
    ELSE LET q == MapGet(Head(pods).Spec.Containers[1].Requests, k)
         IN  (IF milli THEN MilliValue(q) ELSE Value(q)) + SumPods(Tail(pods), k, milli)

\* NodeInfo.AddPod: the requested totals are those of the bound pods
RequestedResource(pods, k) ==
    [MilliCPU |-> SumPods(pods, "cpu", TRUE),
     Memory |-> SumPods(pods, "memory", FALSE),
     EphemeralStorage |-> SumPods(pods, "ephemeral-storage", FALSE),
     ScalarResources |->
        IF k \in BuiltinNames \/ pods = <<>> THEN EmptyList
        ELSE (k :> SumPods(pods, k, FALSE))]

NodeInfos(k) ==
    {[node |-> n, requestedResource |-> RequestedResource(ps, k),
      allocatableResource |-> al, pods |-> ps] :
        n \in Nodes, al \in AllocatableResources(k),
        ps \in UNION {SeqsOfLen({BoundPod(k)}, n) : n \in 0 .. MaxBoundPods}}

----------------------------------------------------------------------------
(* The programs that are not running in a specification *)

\* no call of a map function is made
CallIdle ==
    /\ resource = ""
    /\ pod = [Spec |-> [Containers |-> <<>>, InitContainers |-> <<>>]]
    /\ nodeInfo = [node |-> [nil |-> TRUE, Name |-> ""],
                   requestedResource |-> RequestedResource(<<>>, ExtendedResource),
                   allocatableResource |->
                        [MilliCPU |-> 0, Memory |-> 0, EphemeralStorage |-> 0,
                         ScalarResources |-> EmptyList],
                   pods |-> <<>>]
    /\ genericResult = NoResult
    /\ genericCalc = NoCalc
    /\ scarceResult = NoResult
    /\ scarceCalc = NoCalc

\* no scoring pass is made
PassIdle ==
    /\ scorer = "none"
    /\ calls = EmptyList
    /\ pc = EmptyList
    /\ locals = EmptyList
    /\ results = EmptyList
    /\ runs = EmptyList

\* the iso-client is not started
MainIdle ==
    /\ mainPc = "none"
    /\ servePc = "none"
    /\ sigPc = "none"
    /\ isolator = "none"
    /\ client = "none"
    /\ wg = 0
    /\ serveWg = 0
    /\ sigChan = <<>>
    /\ process = "none"

\* KubeletConfig is not called
CfgIdle ==
    /\ cfgPc = "none"
    /\ oldCfg = EmptyList
    /\ newCfg = EmptyList
    /\ maps = EmptyList
    /\ returned = EmptyList

----------------------------------------------------------------------------
(* The state machine: the priority stage calls either map function *)

Init ==
    /\ resource \in ResourceNames
    /\ pod \in Pods(KeyOf(resource))
    /\ nodeInfo \in NodeInfos(KeyOf(resource))
    /\ genericResult = NoResult
    /\ genericCalc = NoCalc
    /\ scarceResult = NoResult
    /\ scarceCalc = NoCalc
    /\ scorer = "none"
    /\ calls = EmptyList
    /\ pc = EmptyList
    /\ locals = EmptyList
    /\ results = EmptyList
    /\ runs = EmptyList
    /\ MainIdle
    /\ CfgIdle

ResourceBinPackingPriorityMap ==
    LET call == ResourceBinPackingPriorityMapCall(resource, pod, nodeInfo)
    IN  /\ genericResult' = call.result
        /\ genericCalc' = call.calc
        /\ UNCHANGED <<resource, pod, nodeInfo, scarceResult, scarceCalc, passVars, otherVars>>

\* mutant: the call assumes the pod on the node, as the scheduler cache does
ScarcePriorityMapAssumingPod ==
    LET call == ScarceResourceBinPackingPriorityMapCall(resource, pod, nodeInfo)
    IN  /\ scarceResult' = call.result
        /\ scarceCalc' = call.calc
        /\ nodeInfo' = [nodeInfo EXCEPT !.pods = Append(@, pod)]
        /\ UNCHANGED <<resource, pod, genericResult, genericCalc, passVars, otherVars>>

ScarceResourceBinPackingPriorityMap ==
    LET call == ScarceResourceBinPackingPriorityMapCall(resource, pod, nodeInfo)
    IN  /\ scarceResult' = call.result
        /\ scarceCalc' = call.calc
        /\ UNCHANGED <<resource, pod, nodeInfo, genericResult, genericCalc, passVars, otherVars>>

Next == ResourceBinPackingPriorityMap \/ ScarceResourceBinPackingPriorityMap

Spec == Init /\ [][Next]_vars

\* the calls for every pod on the snapshots of one machine
OneMachineInit ==
    /\ Init
    /\ nodeInfo.node.Name = "machine1"

OneMachineSpec == OneMachineInit /\ [][Next]_vars

----------------------------------------------------------------------------
(* A scoring pass: the map function of one prioritizer is called once per
   machine; the calls advance statement by statement and may overlap, and a
   call may be made again after it returned *)

\* the nodes of every case of the test
Machines == {"machine1", "machine2"}

scareResourcePod1(k) ==
    [Spec |-> [Containers |-> <<Requesting(k, 2000)>>, InitContainers |-> <<>>]]

scareResourcePod2(k) ==
    [Spec |-> [Containers |-> <<Requesting(k, 4000)>>, InitContainers |-> <<>>]]

PassPods(k) ==
    {[Spec |-> [Containers |-> <<>>, InitContainers |-> <<>>]],
     scareResourcePod1(k),
     scareResourcePod2(k),
     [Spec |-> [Containers |-> <<Limited(k, 1000)>>, InitContainers |-> <<>>]],
     [Spec |-> [Containers |-> <<>>, InitContainers |-> <<Requesting(k, 2000)>>]],
     [Spec |-> [Containers |-> <<Requesting(k, 1000)>>,
                InitContainers |-> <<Requesting(k, 2000), Requesting(k, 2000)>>]]}

\* the snapshots a machine may be in, or a snapshot without node
PassNodeInfos(k, m) ==
    {ni \in NodeInfos(k) :
        \/ ni.node.Name = m
        \/ /\ ni.node.nil
           /\ ni.pods = <<>>
           /\ ni.allocatableResource.ScalarResources = EmptyList}

PassInit ==
    /\ resource \in ResourceNames
    /\ scorer \in {"generic", "scarce"}
    /\ \E p \in PassPods(KeyOf(resource)) :
       \E q \in {p, scareResourcePod2(KeyOf(resource))} :
       \E n1 \in PassNodeInfos(KeyOf(resource), "machine1") :
       \E n2 \in PassNodeInfos(KeyOf(resource), "machine2") :
            /\ calls = ("machine1" :> [pod |-> p, nodeInfo |-> n1]
                        @@ "machine2" :> [pod |-> q, nodeInfo |-> n2])
            /\ pod = p
            /\ nodeInfo = n1
    /\ genericResult = NoResult
    /\ genericCalc = NoCalc
    /\ scarceResult = NoResult
    /\ scarceCalc = NoCalc
    /\ pc = [m \in Machines |-> "start"]
    /\ locals = [m \in Machines |-> NoCalc]
    /\ results = [m \in Machines |-> NoResult]
    /\ runs = [m \in Machines |-> 1]
    /\ MainIdle
    /\ CfgIdle

\* a panic no function of the call recovers from ends the process, and with
\* it every call of the pass
Crashed == \E m \in Machines : results[m].state = "panicked"

\* return schedulerapi.HostPriority{...}, err
Return(m, result, calc) ==
    /\ pc' = [pc EXCEPT ![m] = "done"]
    /\ locals' = [locals EXCEPT ![m] = calc]
    /\ results' = [results EXCEPT ![m] = result]

\* mutant: reqResource and usedResource keep what the last call left in them
GenericEnterKeepingLocals(m) ==
    /\ scorer = "generic"
    /\ pc[m] = "start"
    /\ ~Crashed
    /\ IF Len(resource) = 0
       THEN Return(m, Failed("resource not defined"), NoCalc)
       ELSE IF calls[m].nodeInfo.node.nil
       THEN Return(m, Failed("node not found"), NoCalc)
       ELSE IF ~podRequestsResource(calls[m].pod.Spec, resource)
       THEN Return(m, Returned(calls[m].nodeInfo.node.Name, 0), NoCalc)
       ELSE /\ pc' = [pc EXCEPT ![m] = "used"]
            /\ locals' = [locals EXCEPT ![m].called = TRUE]
            /\ UNCHANGED results
    /\ UNCHANGED <<callVars, otherVars, scorer, calls, runs>>

\* ResourceBinPackingPriorityMap up to the declarations of reqResource and
\* usedResource in calculateScareResourceScore
GenericEnter(m) ==
    /\ scorer = "generic"
    /\ pc[m] = "start"
    /\ ~Crashed
    /\ IF Len(resource) = 0
       THEN Return(m, Failed("resource not defined"), NoCalc)
       ELSE IF calls[m].nodeInfo.node.nil
       THEN Return(m, Failed("node not found"), NoCalc)
       ELSE IF ~podRequestsResource(calls[m].pod.Spec, resource)
       THEN Return(m, Returned(calls[m].nodeInfo.node.Name, 0), NoCalc)
       ELSE /\ pc' = [pc EXCEPT ![m] = "used"]
            /\ locals' = [locals EXCEPT ![m] = Calc(0, 0, 0)]
            /\ UNCHANGED results
    /\ UNCHANGED <<callVars, otherVars, scorer, calls, runs>>

\* mutant: usedResource is a variable all calls share
GenericReadUsedShared(m) ==
    /\ scorer = "generic"
    /\ pc[m] = "used"
    /\ ~Crashed
    /\ pc' = [pc EXCEPT ![m] = "req"]
    /\ locals' = [x \in Machines |->
                    [locals[x] EXCEPT !.usedResource =
                        usedResourceOf(calls[m].nodeInfo, resource)]]
    /\ UNCHANGED <<callVars, otherVars, scorer, calls, results, runs>>

\* usedResource = nodeInfo.RequestedResource()...
GenericReadUsed(m) ==
    /\ scorer = "generic"
    /\ pc[m] = "used"
    /\ ~Crashed
    /\ pc' = [pc EXCEPT ![m] = "req"]
    /\ locals' = [locals EXCEPT ![m].usedResource =
                    usedResourceOf(calls[m].nodeInfo, resource)]
    /\ UNCHANGED <<callVars, otherVars, scorer, calls, results, runs>>

\* the two loops over the containers and the comparison that follows them
GenericSumRequests(m) ==
    /\ scorer = "generic"
    /\ pc[m] = "req"
    /\ ~Crashed
    /\ pc' = [pc EXCEPT ![m] = "div"]
    /\ LET reqResource == sumRequests(calls[m].pod.Spec.Containers, resource,
                                      locals[m].reqResource)
           reqResourceInit == sumRequests(calls[m].pod.Spec.InitContainers,
                                          resource, 0)
       IN  locals' = [locals EXCEPT ![m].reqResource =
                        IF reqResourceInit > reqResource THEN reqResourceInit
                        ELSE reqResource]
    /\ UNCHANGED <<callVars, otherVars, scorer, calls, results, runs>>

\* available := ...; return (...) / available, and the return of the map function
GenericDivide(m) ==
    /\ scorer = "generic"
    /\ pc[m] = "div"
    /\ ~Crashed
    /\ LET calc == [locals[m] EXCEPT !.available =
                        MapGet(calls[m].nodeInfo.allocatableResource.ScalarResources,
                               resource)]
       IN  Return(m, IF divisionPanics(calc) THEN Panicked
                     ELSE Returned(calls[m].nodeInfo.node.Name, scoreOf(calc)),
                  calc)
    /\ UNCHANGED <<callVars, otherVars, scorer, calls, runs>>

\* ScarceResourceBinPackingPriorityMap up to the declarations of reqResource
\* and usedResource in calculateScareResourceScore
ScarceEnter(m) ==
    /\ scorer = "scarce"
    /\ pc[m] = "start"
    /\ ~Crashed
    /\ IF calls[m].nodeInfo.node.nil
       THEN Return(m, Failed("node not found"), NoCalc)
       ELSE IF ~scarcePodRequestsResource(calls[m].pod.Spec, resource)
       THEN Return(m, Returned(calls[m].nodeInfo.node.Name, 0), NoCalc)
       ELSE /\ pc' = [pc EXCEPT ![m] = "req"]
            /\ locals' = [locals EXCEPT ![m] = Calc(0, 0, 0)]
            /\ UNCHANGED results
    /\ UNCHANGED <<callVars, otherVars, scorer, calls, runs>>

\* for _, container := range containers { reqResource += ... }
ScarceSumRequests(m) ==
    /\ scorer = "scarce"
    /\ pc[m] = "req"
    /\ ~Crashed
    /\ pc' = [pc EXCEPT ![m] = "used"]
    /\ locals' = [locals EXCEPT ![m].reqResource =
                    scarceSumRequests(calls[m].pod.Spec.Containers, resource, @)]
    /\ UNCHANGED <<callVars, otherVars, scorer, calls, results, runs>>

\* mutant: the pods of every node of the pass are counted
ScarceReadUsedOfEveryNode(m) ==
    /\ scorer = "scarce"
    /\ pc[m] = "used"
    /\ ~Crashed
    /\ pc' = [pc EXCEPT ![m] = "div"]
    /\ locals' = [locals EXCEPT ![m].usedResource =
                    scarceUsedResource(calls["machine1"].nodeInfo.pods
                                            \o calls["machine2"].nodeInfo.pods,
                                       resource, @)]
    /\ UNCHANGED <<callVars, otherVars, scorer, calls, results, runs>>

\* for _, pod := range nodeInfo.Pods() { ... usedResource += ... }
ScarceReadUsed(m) ==
    /\ scorer = "scarce"
    /\ pc[m] = "used"
    /\ ~Crashed
    /\ pc' = [pc EXCEPT ![m] = "div"]
    /\ locals' = [locals EXCEPT ![m].usedResource =
                    scarceUsedResource(calls[m].nodeInfo.pods, resource, @)]
    /\ UNCHANGED <<callVars, otherVars, scorer, calls, results, runs>>

\* available := ...; return (...) / available, and the return of the map function
ScarceDivide(m) ==
    /\ scorer = "scarce"
    /\ pc[m] = "div"
    /\ ~Crashed
    /\ LET calc == [locals[m] EXCEPT !.available =
                        MapGet(calls[m].nodeInfo.allocatableResource.ScalarResources,
                               resource)]
       IN  Return(m, IF divisionPanics(calc) THEN Panicked
                     ELSE Returned(calls[m].nodeInfo.node.Name, scoreOf(calc)),
                  calc)
    /\ UNCHANGED <<callVars, otherVars, scorer, calls, runs>>

\* the same call is made again; the caller keeps what the last one returned
CallAgain(m) ==
    /\ pc[m] = "done"
    /\ ~Crashed
    /\ runs[m] < MaxRuns
    /\ results[m].state = "returned"
    /\ pc' = [pc EXCEPT ![m] = "start"]
    /\ runs' = [runs EXCEPT ![m] = @ + 1]
    /\ UNCHANGED <<callVars, otherVars, scorer, calls, locals, results>>

\* test.nodes, the order the nodes are handed over in
NodeOrder == <<"machine1", "machine2">>

\* the list priorityFunction collects: one entry per node, as the calls return
HostPriorityList == [i \in DOMAIN NodeOrder |-> results[NodeOrder[i]]]

PassNext ==
    \E m \in Machines :
        \/ GenericEnter(m)
        \/ GenericReadUsed(m)
        \/ GenericSumRequests(m)
        \/ GenericDivide(m)
        \/ ScarceEnter(m)
        \/ ScarceSumRequests(m)
        \/ ScarceReadUsed(m)
        \/ ScarceDivide(m)
        \/ CallAgain(m)

PassSpec == PassInit /\ [][PassNext]_vars

----------------------------------------------------------------------------
(* The iso-client: main starts the isolator server, registers with the
   kubelet's event dispatcher and waits. server.Serve and HandleSIGTERM run
   as goroutines; signals arrive from outside at any time. *)

\* c := make(chan os.Signal, 2)
SignalBuffer == 2

\* signal.Notify(c, os.Interrupt, syscall.SIGTERM)
Signals == {"os.Interrupt", "syscall.SIGTERM"}

MainInit ==
    /\ mainPc = "RegisterIsolator"
    /\ servePc = "none"
    /\ sigPc = "none"
    /\ isolator = "unregistered"
    /\ client = "none"
    /\ wg = 0
    /\ serveWg = 0
    /\ sigChan = <<>>
    /\ process = "running"
    /\ CallIdle
    /\ PassIdle
    /\ CfgIdle

\* glog.Fatalf(msg): the process exits where it stands
Fatalf(msg) ==
    /\ process' = msg
    /\ UNCHANGED <<mainPc, servePc, sigPc, isolator, client, wg, serveWg, sigChan>>

\* mutant: the failure to register the isolator is logged and main goes on
RegisterIsolatorLoggingFailure ==
    /\ process = "running"
    /\ mainPc = "RegisterIsolator"
    /\ \E err \in {"nil", "error"} :
            isolator' = IF err = "nil" THEN "registered" ELSE isolator
    /\ mainPc' = "wg.Add"
    /\ UNCHANGED <<servePc, sigPc, client, wg, serveWg, sigChan, process>>
    /\ UNCHANGED <<callVars, passVars, cfgVars>>

\* err := server.RegisterIsolator(); if err != nil { glog.Fatalf(...) }
RegisterIsolator ==
    /\ process = "running"
    /\ mainPc = "RegisterIsolator"
    /\ \E err \in {"nil", "error"} :
            IF err = "nil"
            THEN /\ isolator' = "registered"
                 /\ mainPc' = "wg.Add"
                 /\ UNCHANGED <<servePc, sigPc, client, wg, serveWg, sigChan, process>>
            ELSE Fatalf("Cannot register isolator")
    /\ UNCHANGED <<callVars, passVars, cfgVars>>

\* wg.Add(1)
WaitGroupAdd ==
    /\ process = "running"
    /\ mainPc = "wg.Add"
    /\ wg' = wg + 1
    /\ mainPc' = "go Serve"
    /\ UNCHANGED <<servePc, sigPc, isolator, client, serveWg, sigChan, process>>
    /\ UNCHANGED <<callVars, passVars, cfgVars>>

\* go server.Serve(wg): the WaitGroup is passed by value, Serve holds a copy
GoServe ==
    /\ process = "running"
    /\ mainPc = "go Serve"
    /\ servePc' = "started"
    /\ serveWg' = wg
    /\ mainPc' = "NewEventDispatcherClient"
    /\ UNCHANGED <<sigPc, isolator, client, wg, sigChan, process>>
    /\ UNCHANGED <<callVars, passVars, cfgVars>>

\* client, err := aff.NewEventDispatcherClient(...); if err != nil { glog.Fatalf(...) }
NewEventDispatcherClient ==
    /\ process = "running"
    /\ mainPc = "NewEventDispatcherClient"
    /\ \E err \in {"nil", "error"} :
            IF err = "nil"
            THEN /\ client' = "created"
                 /\ mainPc' = "client.Register"
                 /\ UNCHANGED <<servePc, sigPc, isolator, wg, serveWg, sigChan, process>>
            ELSE Fatalf("Cannot create eventDispatcherClient")
    /\ UNCHANGED <<callVars, passVars, cfgVars>>

\* reply, err := client.Register(); if err != nil { glog.Fatalf(...) }
ClientRegister ==
    /\ process = "running"
    /\ mainPc = "client.Register"
    /\ \E err \in {"nil", "error"} :
            IF err = "nil"
            THEN /\ client' = "registered"
                 /\ mainPc' = "signal.Notify"
                 /\ UNCHANGED <<servePc, sigPc, isolator, wg, serveWg, sigChan, process>>
            ELSE Fatalf("Failed to register isolator")
    /\ UNCHANGED <<callVars, passVars, cfgVars>>

\* c := make(chan os.Signal, 2); signal.Notify(c, os.Interrupt, syscall.SIGTERM)
SignalNotify ==
    /\ process = "running"
    /\ mainPc = "signal.Notify"
    /\ mainPc' = "go HandleSIGTERM"
    /\ UNCHANGED <<servePc, sigPc, isolator, client, wg, serveWg, sigChan, process>>
    /\ UNCHANGED <<callVars, passVars, cfgVars>>

\* go aff.HandleSIGTERM(c, client)
GoHandleSIGTERM ==
    /\ process = "running"
    /\ mainPc = "go HandleSIGTERM"
    /\ sigPc' = "receiving"
    /\ mainPc' = "wg.Wait"
    /\ UNCHANGED <<servePc, isolator, client, wg, serveWg, sigChan, process>>
    /\ UNCHANGED <<callVars, passVars, cfgVars>>

\* wg.Wait(): returns with the counter at zero, blocks otherwise; main
\* returning ends the process
WaitGroupWait ==
    /\ process = "running"
    /\ mainPc = "wg.Wait"
    /\ IF wg = 0
       THEN mainPc' = "returned" /\ process' = "main returned"
       ELSE mainPc' = "blocked in wg.Wait" /\ UNCHANGED process
    /\ UNCHANGED <<servePc, sigPc, isolator, client, wg, serveWg, sigChan>>
    /\ UNCHANGED <<callVars, passVars, cfgVars>>

\* the goroutine of server.Serve begins to serve
ServeStart ==
    /\ process = "running"
    /\ servePc = "started"
    /\ servePc' = "serving"
    /\ UNCHANGED <<mainPc, sigPc, isolator, client, wg, serveWg, sigChan, process>>
    /\ UNCHANGED <<callVars, passVars, cfgVars>>

\* server.Serve ends and calls Done on the WaitGroup it holds
ServeFinish ==
    /\ process = "running"
    /\ servePc = "serving"
    /\ servePc' = "finished"
    /\ serveWg' = serveWg - 1
    /\ UNCHANGED <<mainPc, sigPc, isolator, client, wg, sigChan, process>>
    /\ UNCHANGED <<callVars, passVars, cfgVars>>

\* signal.Notify has been called: signals go to c
Notified == mainPc \in {"go HandleSIGTERM", "wg.Wait", "blocked in wg.Wait", "returned"}

\* SIGTERM or an interrupt arrives: it ends the process by default, and is
\* buffered in c, or dropped when c is full, after signal.Notify
Signal ==
    /\ process = "running"
    /\ IF Notified
       THEN /\ \E sig \in Signals :
                    sigChan' = IF Len(sigChan) < SignalBuffer
                               THEN Append(sigChan, sig)
                               ELSE sigChan
            /\ UNCHANGED process
       ELSE /\ process' = "killed by signal"
            /\ UNCHANGED sigChan
    /\ UNCHANGED <<mainPc, servePc, sigPc, isolator, client, wg, serveWg>>
    /\ UNCHANGED <<callVars, passVars, cfgVars>>

\* HandleSIGTERM receives a signal from c
HandleSIGTERMReceive ==
    /\ process = "running"
    /\ sigPc = "receiving"
    /\ sigChan # <<>>
    /\ sigChan' = Tail(sigChan)
    /\ sigPc' = "handling"
    /\ UNCHANGED <<mainPc, servePc, isolator, client, wg, serveWg, process>>
    /\ UNCHANGED <<callVars, passVars, cfgVars>>

\* HandleSIGTERM, given the client, handles the signal and ends the process
HandleSIGTERMExit ==
    /\ process = "running"
    /\ sigPc = "handling"
    /\ sigPc' = "exited"
    /\ process' = "exited on signal"
    /\ UNCHANGED <<mainPc, servePc, isolator, client, wg, serveWg, sigChan>>
    /\ UNCHANGED <<callVars, passVars, cfgVars>>

MainNext ==
    \/ RegisterIsolator
    \/ WaitGroupAdd
    \/ GoServe
    \/ NewEventDispatcherClient
    \/ ClientRegister
    \/ SignalNotify
    \/ GoHandleSIGTERM
    \/ WaitGroupWait
    \/ ServeStart
    \/ ServeFinish
    \/ Signal
    \/ HandleSIGTERMReceive
    \/ HandleSIGTERMExit

MainSpec == MainInit /\ [][MainNext]_vars

----------------------------------------------------------------------------
(* tfWideDeepWorkload.KubeletConfig: the configuration is a struct reached
   through a pointer; its KubeReserved field is a Go map, a reference to a
   map on the heap, or nil. *)

\* the nil map
nilMap == 0

\* string(cpumanager.PolicyStatic)
PolicyStatic == "static"

\* 10 * time.Second, in seconds
ReconcilePeriodSeconds == 10

\* the keys of the reserved-resources maps
ReservedKeys == {"cpu", "memory"}

\* the map[string]string values over the keys: every subset of the keys
ReservedMaps ==
    UNION { [keys -> {"100m", "1Gi"}] : keys \in SUBSET ReservedKeys }

\* the configurations a caller holds: KubeReserved unset, or set to a map
KubeletConfigurations ==
    [CPUManagerPolicy : {"none", PolicyStatic},
     CPUManagerReconcilePeriod : {ReconcilePeriodSeconds, 30},
     CgroupDriver : {"cgroupfs", "systemd"},
     KubeReserved : {nilMap, 1}]

CfgInit ==
    /\ cfgPc = "DeepCopy"
    /\ oldCfg \in KubeletConfigurations
    /\ \E m \in ReservedMaps :
            maps = IF oldCfg.KubeReserved = nilMap THEN <<>> ELSE <<m>>
    /\ newCfg = EmptyList
    /\ returned = EmptyList
    /\ CallIdle
    /\ PassIdle
    /\ MainIdle

\* mutant: the struct is copied, the copy's KubeReserved is the same map
ShallowCopy ==
    /\ cfgPc = "DeepCopy"
    /\ newCfg' = oldCfg
    /\ cfgPc' = "CPUManagerPolicy"
    /\ UNCHANGED <<oldCfg, maps, returned>>
    /\ UNCHANGED <<callVars, passVars, mainVars>>

\* newCfg = oldCfg.DeepCopy(): a new struct, and a new map with the entries
\* of the old one when KubeReserved is set
DeepCopy ==
    /\ cfgPc = "DeepCopy"
    /\ IF oldCfg.KubeReserved = nilMap
       THEN /\ newCfg' = oldCfg
            /\ UNCHANGED maps
       ELSE /\ maps' = Append(maps, maps[oldCfg.KubeReserved])
            /\ newCfg' = [oldCfg EXCEPT !.KubeReserved = Len(maps) + 1]
    /\ cfgPc' = "CPUManagerPolicy"
    /\ UNCHANGED <<oldCfg, returned>>
    /\ UNCHANGED <<callVars, passVars, mainVars>>

\* newCfg.CPUManagerPolicy = string(cpumanager.PolicyStatic)
SetCPUManagerPolicy ==
    /\ cfgPc = "CPUManagerPolicy"
    /\ newCfg' = [newCfg EXCEPT !.CPUManagerPolicy = PolicyStatic]
    /\ cfgPc' = "CPUManagerReconcilePeriod"
    /\ UNCHANGED <<oldCfg, maps, returned>>
    /\ UNCHANGED <<callVars, passVars, mainVars>>

\* newCfg.CPUManagerReconcilePeriod = metav1.Duration{Duration: 10 * time.Second}
SetCPUManagerReconcilePeriod ==
    /\ cfgPc = "CPUManagerReconcilePeriod"
    /\ newCfg' = [newCfg EXCEPT !.CPUManagerReconcilePeriod = ReconcilePeriodSeconds]
    /\ cfgPc' = "KubeReserved"
    /\ UNCHANGED <<oldCfg, maps, returned>>
    /\ UNCHANGED <<callVars, passVars, mainVars>>

\* if newCfg.KubeReserved == nil { newCfg.KubeReserved = map[string]string{} }
MakeKubeReserved ==
    /\ cfgPc = "KubeReserved"
    /\ IF newCfg.KubeReserved = nilMap
       THEN /\ maps' = Append(maps, EmptyList)
            /\ newCfg' = [newCfg EXCEPT !.KubeReserved = Len(maps) + 1]
       ELSE UNCHANGED <<maps, newCfg>>
    /\ cfgPc' = "KubeReserved[cpu]"
    /\ UNCHANGED <<oldCfg, returned>>
    /\ UNCHANGED <<callVars, passVars, mainVars>>

\* m[key] = value on a Go map
MapSet(m, key, value) ==
    [k \in DOMAIN m \cup {key} |-> IF k = key THEN value ELSE m[k]]

\* if _, ok := newCfg.KubeReserved["cpu"]; !ok { newCfg.KubeReserved["cpu"] = "200m" }
SetKubeReservedCPU ==
    /\ cfgPc = "KubeReserved[cpu]"
    /\ maps' = IF "cpu" \in DOMAIN maps[newCfg.KubeReserved]
               THEN maps
               ELSE [maps EXCEPT ![newCfg.KubeReserved] = MapSet(@, "cpu", "200m")]
    /\ cfgPc' = "return"
    /\ UNCHANGED <<oldCfg, newCfg, returned>>
    /\ UNCHANGED <<callVars, passVars, mainVars>>

\* return newCfg, nil
ReturnNewCfg ==
    /\ cfgPc = "return"
    /\ returned' = [newCfg |-> newCfg, err |-> "nil"]
    /\ cfgPc' = "returned"
    /\ UNCHANGED <<oldCfg, newCfg, maps>>
    /\ UNCHANGED <<callVars, passVars, mainVars>>

CfgNext ==
    \/ DeepCopy
    \/ SetCPUManagerPolicy
    \/ SetCPUManagerReconcilePeriod
    \/ MakeKubeReserved
    \/ SetKubeReservedCPU
    \/ ReturnNewCfg

CfgSpec == CfgInit /\ [][CfgNext]_vars

----------------------------------------------------------------------------
(* Vocabulary of the properties *)

SeqRange(seq) == {seq[i] : i \in DOMAIN seq}

AllContainers(p) == SeqRange(p.Spec.Containers) \cup SeqRange(p.Spec.InitContainers)

\* some container, regular or init, has a request or a limit above zero
TouchesResource(p, res) ==
    \E c \in AllContainers(p) : MapGet(c.Requests, res) > 0 \/ MapGet(c.Limits, res) > 0

\* the amount a container requests, in whole units
RequestUnits(c, res) == Value(MapGet(c.Requests, res))

SumUpTo(f, n) ==
    LET S[i \in 0 .. n] == IF i = 0 THEN 0 ELSE S[i - 1] + f[i]
    IN  S[n]

TotalRequest(containers, res) ==
    SumUpTo([i \in DOMAIN containers |-> RequestUnits(containers[i], res)],
            Len(containers))

LargestRequest(containers, res) ==
    LET amounts == {RequestUnits(c, res) : c \in SeqRange(containers)} \cup {0}
    IN  CHOOSE a \in amounts : \A b \in amounts : b <= a

Larger(a, b) == IF a >= b THEN a ELSE b

\* effective demand: max(S, I)
EffectiveDemand(p, res) ==
    Larger(TotalRequest(p.Spec.Containers, res),
           LargestRequest(p.Spec.InitContainers, res))

\* the requests of the containers of the pods bound to the node
BoundRequests(ni, res) ==
    SumUpTo([i \in DOMAIN ni.pods |-> TotalRequest(ni.pods[i].Spec.Containers, res)],
            Len(ni.pods))

\* the node's already-requested total of a dimension
RequestedTotal(ni, res) ==
    CASE res = "cpu" -> ni.requestedResource.MilliCPU
      [] res = "memory" -> ni.requestedResource.Memory
      [] res = "ephemeral-storage" -> ni.requestedResource.EphemeralStorage
      [] OTHER -> MapGet(ni.requestedResource.ScalarResources, res)

\* the node's allocatable total of a dimension
AllocatableTotal(ni, res) ==
    CASE res = "cpu" -> ni.allocatableResource.MilliCPU
      [] res = "memory" -> ni.allocatableResource.Memory
      [] res = "ephemeral-storage" -> ni.allocatableResource.EphemeralStorage
      [] OTHER -> MapGet(ni.allocatableResource.ScalarResources, res)

ScalarAllocatable(ni, res) == MapGet(ni.allocatableResource.ScalarResources, res)

Succeeded(result) == result.state = "returned" /\ result.err = "nil"

GenericCalled == genericResult.state # "none"

ScarceCalled == scarceResult.state # "none"

----------------------------------------------------------------------------
(* C1: with a non-empty resource name and a resolvable node, a pod none of
   whose containers (regular or init) has a request or a limit above zero for
   the resource gets a successful result with score 0 from both scorers,
   whatever the node's used and allocatable amounts are. *)
C1_UntouchedResourceScoresZero ==
    (resource # "" /\ ~nodeInfo.node.nil /\ ~TouchesResource(pod, resource))
        => /\ GenericCalled => (Succeeded(genericResult) /\ genericResult.Score = 0)
           /\ ScarceCalled => (Succeeded(scarceResult) /\ scarceResult.Score = 0)

\* a pod holding only a zero request, on a node with a bound pod and no
\* allocatable entry, scored by both
C1_Witness ==
    /\ resource = ExtendedResource
    /\ ~nodeInfo.node.nil
    /\ ~TouchesResource(pod, resource)
    /\ \E c \in AllContainers(pod) : resource \in DOMAIN c.Requests
    /\ nodeInfo.pods # <<>>
    /\ ScalarAllocatable(nodeInfo, resource) = 0
    /\ Succeeded(genericResult) /\ genericResult.Score = 0
    /\ Succeeded(scarceResult) /\ scarceResult.Score = 0

(* C2: the generic scorer, for a resolvable node, a non-empty resource name, a
   pod that requests the resource and a positive allocatable total, returns
   floor((used + demand) * 10 / available), with used the node's requested
   total, demand the effective demand max(S, I) and available the node's
   allocatable total of the resource. *)
C2_GenericScoreFormula ==
    (/\ GenericCalled
     /\ resource # ""
     /\ ~nodeInfo.node.nil
     /\ TouchesResource(pod, resource)
     /\ AllocatableTotal(nodeInfo, resource) > 0)
        => /\ Succeeded(genericResult)
           /\ genericResult.Score =
                ((RequestedTotal(nodeInfo, resource) + EffectiveDemand(pod, resource))
                    * 10) \div AllocatableTotal(nodeInfo, resource)

(* C3: the scarce scorer, for a pod that requests the resource and a positive
   allocatable A in the scalar-resource map, returns floor((U + D) * 10 / A),
   U the requests of the containers of the pods bound to the node and D the
   requests of the pod's own containers; D=2 scores 2 with A=8, U=0, scores 5
   with A=4, U=0, scores 10 with A=4, U=2; D=4 scores 5 with A=8, U=0 and 10
   with A=4, U=0. *)
C3_ScarceScoreFormula ==
    LET U == BoundRequests(nodeInfo, resource)
        D == TotalRequest(pod.Spec.Containers, resource)
        A == ScalarAllocatable(nodeInfo, resource)
    IN  (/\ ScarceCalled
         /\ ~nodeInfo.node.nil
         /\ TouchesResource(pod, resource)
         /\ A > 0)
            => /\ Succeeded(scarceResult)
               /\ scarceResult.Host = nodeInfo.node.Name
               /\ scarceResult.Score = ((U + D) * 10) \div A
               /\ (D = 2 /\ A = 8 /\ U = 0) => scarceResult.Score = 2
               /\ (D = 2 /\ A = 4 /\ U = 0) => scarceResult.Score = 5
               /\ (D = 2 /\ A = 4 /\ U = 2) => scarceResult.Score = 10
               /\ (D = 4 /\ A = 8 /\ U = 0) => scarceResult.Score = 5
               /\ (D = 4 /\ A = 4 /\ U = 0) => scarceResult.Score = 10

\* the third case of the test: machine2 with a bound pod requesting 2
C3_Witness ==
    /\ resource = ExtendedResource
    /\ nodeInfo.node.Name = "machine2"
    /\ pod.Spec.Containers = <<Requesting(ExtendedResource, 2000)>>
    /\ pod.Spec.InitContainers = <<>>
    /\ nodeInfo.pods = <<BoundPod(ExtendedResource)>>
    /\ ScalarAllocatable(nodeInfo, resource) = 4
    /\ scarceResult = Returned("machine2", 10)

(* C4: the demand the generic scorer uses is max(S, I): S the sum of the
   requests of the regular containers, I the largest single request among the
   init containers (0 when none requests the resource). *)
C4_DemandIsMaxOfSumAndLargestInit ==
    genericCalc.called
        => genericCalc.reqResource =
             Larger(TotalRequest(pod.Spec.Containers, resource),
                    LargestRequest(pod.Spec.InitContainers, resource))

(* C5: for the same extended resource, a resolvable node with positive
   allocatable whose requested total equals the requests of its bound pods'
   containers, and any pod, the scarce scorer and the generic scorer return
   the same host and the same score. *)
C5_ScorersAgree ==
    (/\ GenericCalled /\ ScarceCalled
     /\ resource = ExtendedResource
     /\ ~nodeInfo.node.nil
     /\ ScalarAllocatable(nodeInfo, resource) > 0
     /\ RequestedTotal(nodeInfo, resource) = BoundRequests(nodeInfo, resource))
        => /\ genericResult.Host = scarceResult.Host
           /\ genericResult.Score = scarceResult.Score

(* C6, as stated: with no resolvable node both scorers return the
   node-not-found error, for every pod. *)
C6_NodeNotFoundAlways ==
    nodeInfo.node.nil
        => /\ GenericCalled => genericResult = Failed("node not found")
           /\ ScarceCalled => scarceResult = Failed("node not found")

(* C6, amended: with no resolvable node both scorers return a non-nil error
   and never a score, for every pod: the node-not-found error, except that a
   generic scorer with an empty resource name returns its misconfiguration
   error. *)
C6_UnresolvedNodeIsAnError ==
    nodeInfo.node.nil
        => /\ GenericCalled =>
                genericResult = Failed(IF resource = "" THEN "resource not defined"
                                       ELSE "node not found")
           /\ ScarceCalled => scarceResult = Failed("node not found")

\* a pod that requests the resource, scored by both on a snapshot without node
C6_Witness ==
    /\ nodeInfo.node.nil
    /\ resource = ExtendedResource
    /\ TouchesResource(pod, resource)
    /\ genericResult.err = "node not found"
    /\ scarceResult.err = "node not found"

(* C7: a generic scorer with an empty resource name fails every call with the
   misconfiguration error, for every pod and every node. *)
C7_EmptyResourceIsMisconfiguration ==
    (resource = "" /\ GenericCalled)
        => genericResult = Failed("resource not defined")

\* an empty name, a resolvable node with capacity, a pod with requests
C7_Witness ==
    /\ resource = ""
    /\ ~nodeInfo.node.nil
    /\ ScalarAllocatable(nodeInfo, ExtendedResource) > 0
    /\ TouchesResource(pod, ExtendedResource)
    /\ genericResult.err = "resource not defined"

(* C8: a scarce scorer constructed with an empty resource name fails with a
   misconfiguration error; it does not return a successful score. *)
C8_ScarceEmptyResourceFails ==
    (resource = "" /\ ScarceCalled)
        => scarceResult = Failed("resource not defined")

(* C9, as stated: a generic call with both an unresolvable node and an empty
   resource name fails with the node-not-found error. *)
C9_NodeCheckedFirst ==
    (resource = "" /\ nodeInfo.node.nil /\ GenericCalled)
        => genericResult.err = "node not found"

(* C9, amended: the resource-name check comes before the node-identity check:
   a generic call with both an unresolvable node and an empty resource name
   fails with the misconfiguration error. *)
C9_ResourceNameCheckedFirst ==
    (resource = "" /\ nodeInfo.node.nil /\ GenericCalled)
        => /\ genericResult.err = "resource not defined"
           /\ genericResult.Host = "" /\ genericResult.Score = 0

\* both conditions at once, for a pod that requests the extended resource
C9_Witness ==
    /\ resource = ""
    /\ TouchesResource(pod, ExtendedResource)
    /\ nodeInfo.node.nil
    /\ genericResult = Failed("resource not defined")

(* C10: every score of a successful call of either scorer lies in
   0 .. MaxPriority. *)
C10_ScoreWithinRange ==
    /\ Succeeded(genericResult) => genericResult.Score \in 0 .. 10
    /\ Succeeded(scarceResult) => scarceResult.Score \in 0 .. 10

----------------------------------------------------------------------------
(* Amounts in the minor unit of their dimension: millicores for cpu, whole
   units otherwise *)

Amount(q, res) == IF res = "cpu" THEN MilliValue(q) ELSE Value(q)

RequestAmount(c, res) == Amount(MapGet(c.Requests, res), res)

\* peak demand of the pod: the larger of the regular containers' sum and the
\* largest init container
PeakDemand(p, res) ==
    LET regular == p.Spec.Containers
        init == {RequestAmount(c, res) : c \in SeqRange(p.Spec.InitContainers)} \cup {0}
    IN  Larger(SumUpTo([i \in DOMAIN regular |-> RequestAmount(regular[i], res)],
                       Len(regular)),
               CHOOSE a \in init : \A b \in init : b <= a)

Unclamped(result, used, demand, available) ==
    /\ Succeeded(result)
    /\ result.Score = ((used + demand) * 10) \div available
    /\ result.Score >= 10
    /\ (used + demand) * 10 >= 11 * available => result.Score > 10

(* C11: for a pod that requests the resource on a node with
   used + demand > available > 0, both scorers return exactly
   floor((used + demand) * 10 / available), a value of at least 10 and above
   MaxPriority whenever (used + demand) * 10 >= 11 * available. *)
C11_NoUpperClamp ==
    LET used == RequestedTotal(nodeInfo, resource)
        demand == PeakDemand(pod, resource)
        available == AllocatableTotal(nodeInfo, resource)
    IN  (/\ resource # ""
         /\ ~nodeInfo.node.nil
         /\ TouchesResource(pod, resource)
         /\ available > 0
         /\ used + demand > available)
            => /\ GenericCalled => Unclamped(genericResult, used, demand, available)
               /\ ScarceCalled => Unclamped(scarceResult, used, demand, available)

(* C12: when the pod requests the resource and the node's allocatable for it
   is 0 or absent, each scorer ends the call with a defined outcome, score 0
   or a returned error, and never with a division by zero. *)
C12_DegenerateCapacityHandled ==
    (/\ resource # ""
     /\ ~nodeInfo.node.nil
     /\ TouchesResource(pod, resource)
     /\ AllocatableTotal(nodeInfo, resource) = 0)
        => /\ GenericCalled =>
                /\ genericResult.state = "returned"
                /\ Succeeded(genericResult) => genericResult.Score = 0
           /\ ScarceCalled =>
                /\ scarceResult.state = "returned"
                /\ Succeeded(scarceResult) => scarceResult.Score = 0

(* C13: for a generic scorer configured with cpu, memory or ephemeral-storage
   the divisor is the node's allocatable total of that dimension, so a pod
   requesting it on a node with a positive allocatable total gets a score,
   floor((used + demand) * 10 / allocatable). *)
C13_BuiltinDivisorIsAllocatable ==
    (/\ GenericCalled
     /\ resource \in {"cpu", "memory", "ephemeral-storage"}
     /\ ~nodeInfo.node.nil
     /\ TouchesResource(pod, resource)
     /\ AllocatableTotal(nodeInfo, resource) > 0)
        => /\ genericCalc.called
           /\ genericCalc.available = AllocatableTotal(nodeInfo, resource)
           /\ Succeeded(genericResult)
           /\ genericResult.Score =
                ((genericCalc.usedResource + genericCalc.reqResource) * 10)
                    \div AllocatableTotal(nodeInfo, resource)

(* C14: the generic scorer reads used through the accessor of the configured
   name: requested CPU for cpu, requested memory for memory, requested
   ephemeral storage for ephemeral-storage, the extended-resource entry for
   any other name. *)
C14_UsedReadThroughMatchingAccessor ==
    genericCalc.called
        => genericCalc.usedResource = RequestedTotal(nodeInfo, resource)

----------------------------------------------------------------------------
(* Properties of the calls of a scoring pass *)

\* what the map function of the pass returns for the call of m when nothing
\* else runs
CallAlone(m) ==
    IF scorer = "generic"
    THEN ResourceBinPackingPriorityMapCall(resource, calls[m].pod, calls[m].nodeInfo)
    ELSE ScarceResourceBinPackingPriorityMapCall(resource, calls[m].pod,
                                                 calls[m].nodeInfo)

\* both calls of the pass are for one pod that requests the resource, on
\* machines the scheduler could resolve, and both have returned
SamePodScored(a, b) ==
    /\ pc[a] = "done"
    /\ pc[b] = "done"
    /\ calls[a].pod = calls[b].pod
    /\ TouchesResource(calls[a].pod, resource)
    /\ ~calls[a].nodeInfo.node.nil
    /\ ~calls[b].nodeInfo.node.nil

(* C15: for both scorers and a pod that requests the resource, of two node
   states with the same positive allocatable the one with the larger used
   amount never gets the lower score. *)
C15_MonotoneInUsed ==
    \A a, b \in Machines :
        (/\ SamePodScored(a, b)
         /\ AllocatableTotal(calls[a].nodeInfo, resource)
                = AllocatableTotal(calls[b].nodeInfo, resource)
         /\ AllocatableTotal(calls[a].nodeInfo, resource) > 0
         /\ RequestedTotal(calls[a].nodeInfo, resource)
                >= RequestedTotal(calls[b].nodeInfo, resource))
            => (Succeeded(results[b])
                    => /\ Succeeded(results[a])
                       /\ results[a].Score >= results[b].Score)

C15_Witness ==
    \E a, b \in Machines :
        /\ SamePodScored(a, b)
        /\ AllocatableTotal(calls[a].nodeInfo, resource)
                = AllocatableTotal(calls[b].nodeInfo, resource)
        /\ RequestedTotal(calls[a].nodeInfo, resource)
                > RequestedTotal(calls[b].nodeInfo, resource)
        /\ Succeeded(results[a])
        /\ Succeeded(results[b])
        /\ results[a].Score > results[b].Score

(* C16: for one pod that requests the resource and two nodes A and B with
   positive allocatable, if (usedA + demand) / availableA is at least
   (usedB + demand) / availableB, then the score of A is at least the score
   of B. *)
C16_PackTightPreference ==
    \A a, b \in Machines :
        LET demand == PeakDemand(calls[a].pod, resource)
            usedA == RequestedTotal(calls[a].nodeInfo, resource)
            usedB == RequestedTotal(calls[b].nodeInfo, resource)
            availableA == AllocatableTotal(calls[a].nodeInfo, resource)
            availableB == AllocatableTotal(calls[b].nodeInfo, resource)
        IN  (/\ SamePodScored(a, b)
             /\ availableA > 0
             /\ availableB > 0
             /\ (usedA + demand) * availableB >= (usedB + demand) * availableA
             /\ Succeeded(results[a])
             /\ Succeeded(results[b]))
                => results[a].Score >= results[b].Score

(* C17: for either scorer a call made again with the same pod and the same
   node snapshot returns what it returned before, whatever calls for other
   pods or nodes ran in between, and two calls with identical pod and
   snapshot return identical results. *)
C17_SameCallSameResult ==
    [][\A a \in Machines :
          /\ results[a] # NoResult => results'[a] = results[a]
          /\ \A b \in Machines :
                (/\ calls[a] = calls[b]
                 /\ results'[a] # NoResult
                 /\ results'[b] # NoResult)
                    => results'[a] = results'[b]]_vars

C17_Witness ==
    \E a, b \in Machines :
        /\ calls[a].pod # calls[b].pod
        /\ runs[a] = 2
        /\ pc[a] = "done"
        /\ pc[b] = "done"
        /\ Succeeded(results[a])
        /\ results[a].Score > 0

(* C20: calls for one pod over different nodes may be interleaved in any
   order; each node receives the result, and the call computes the values,
   it would with the calls made one after another. *)
C20_InterleavedAsSequential ==
    \A m \in Machines :
        pc[m] = "done"
            => /\ results[m] = CallAlone(m).result
               /\ locals[m] = CallAlone(m).calc

C20_Witness ==
    \E a, b \in Machines :
        /\ calls[a].pod = calls[b].pod
        /\ calls[a].nodeInfo.node.Name # calls[b].nodeInfo.node.Name
        /\ pc[a] = "done"
        /\ Succeeded(results[a])
        /\ results[a].Score > 0
        /\ pc[b] = "div"
        /\ locals[b].usedResource # locals[a].usedResource

----------------------------------------------------------------------------
(* Properties of one call, continued *)

\* the orders a list may be given in
Perms(seq) ==
    {[i \in DOMAIN seq |-> seq[f[i]]] : f \in Permutations(DOMAIN seq)}

(* C18: the demand of the pod, the podRequestsResource gate and the score
   are the same for every order of the pod's regular containers and every
   order of its init containers. *)
C18_ContainerOrderIrrelevant ==
    (GenericCalled /\ ScarceCalled) =>
        \A cs \in Perms(pod.Spec.Containers), ics \in Perms(pod.Spec.InitContainers) :
            LET reordered == [Spec |-> [Containers |-> cs, InitContainers |-> ics]]
                generic == ResourceBinPackingPriorityMapCall(resource, reordered,
                                                             nodeInfo)
                scarce == ScarceResourceBinPackingPriorityMapCall(resource, reordered,
                                                                  nodeInfo)
            IN  /\ podRequestsResource(reordered.Spec, resource)
                        = podRequestsResource(pod.Spec, resource)
                /\ reqResourceOf(reordered, resource) = reqResourceOf(pod, resource)
                /\ genericResult = generic.result
                /\ genericCalc = generic.calc
                /\ scarceResult = scarce.result
                /\ scarceCalc = scarce.calc

C18_Witness ==
    /\ Len(pod.Spec.Containers) = 2
    /\ RequestUnits(pod.Spec.Containers[1], resource)
            < RequestUnits(pod.Spec.Containers[2], resource)
    /\ pod.Spec.InitContainers # <<>>
    /\ Succeeded(genericResult)
    /\ genericResult.Score > 0
    /\ Succeeded(scarceResult)
    /\ scarceResult.Score > 0

(* C19: a call of either scorer, successful or failing, leaves the node
   state (requested totals, allocatable totals, bound pods), the pod
   specification and the configured resource name as they were. *)
C19_CallLeavesInputsUnchanged ==
    [][/\ nodeInfo' = nodeInfo
       /\ pod' = pod
       /\ resource' = resource]_vars

C19_Witness ==
    /\ nodeInfo.pods # <<>>
    /\ pod.Spec.Containers # <<>>
    /\ genericResult = Failed("resource not defined")
    /\ Succeeded(scarceResult)

----------------------------------------------------------------------------
(* Properties of a scoring pass, continued *)

\* the call of m takes its next statement
Advance(m) ==
    \/ GenericEnter(m)
    \/ GenericReadUsed(m)
    \/ GenericSumRequests(m)
    \/ GenericDivide(m)
    \/ ScarceEnter(m)
    \/ ScarceSumRequests(m)
    \/ ScarceReadUsed(m)
    \/ ScarceDivide(m)

\* the call ended without a score: it returned an error or it panicked
WentWrong(result) ==
    \/ result.state = "panicked"
    \/ result.state = "returned" /\ result.err # "nil"

(* C21: whatever goes wrong while one node of a pass is scored (node not
   found, or zero allocatable for a pod that requests the resource), the
   call of every other node of the pass goes on to its own result. *)
C21_FailureIsLocal ==
    \A a, b \in Machines :
        (/\ a # b
         /\ WentWrong(results[a])
         /\ \/ calls[a].nodeInfo.node.nil
            \/ /\ TouchesResource(calls[a].pod, resource)
               /\ AllocatableTotal(calls[a].nodeInfo, resource) = 0
         /\ pc[b] # "done")
            => ENABLED Advance(b)

(* C22: every successful call returns a HostPriority whose Host is the name
   of the node it was given, so the list collected over the nodes has one
   entry per node in the order the nodes were given, not in the order of
   the scores. *)
C22_HostsInNodeOrder ==
    /\ \A m \in Machines :
            Succeeded(results[m])
                => results[m].Host = calls[m].nodeInfo.node.Name
    /\ (\A m \in Machines : pc[m] = "done" /\ Succeeded(results[m]))
            => /\ Len(HostPriorityList) = Cardinality(Machines)
               /\ \A i \in DOMAIN NodeOrder : HostPriorityList[i].Host = NodeOrder[i]

C22_Witness ==
    /\ \A m \in Machines : pc[m] = "done" /\ Succeeded(results[m])
    /\ HostPriorityList[1].Host = "machine1"
    /\ HostPriorityList[2].Host = "machine2"
    /\ HostPriorityList[1].Score < HostPriorityList[2].Score

----------------------------------------------------------------------------
(* Properties of one call, continued *)

(* C23: podRequestsResource is true exactly when some container of the pod,
   regular or init, holds an entry for the resource in its requests or its
   limits whose milli-value is above zero; the calculation is entered exactly
   for these pods. *)
C23_GateIffPositiveEntry ==
    LET positive == \E c \in AllContainers(pod) :
                        \/ /\ resource \in DOMAIN c.Requests
                           /\ MilliValue(c.Requests[resource]) > 0
                        \/ /\ resource \in DOMAIN c.Limits
                           /\ MilliValue(c.Limits[resource]) > 0
    IN  /\ podRequestsResource(pod.Spec, resource) <=> positive
        /\ scarcePodRequestsResource(pod.Spec, resource) <=> positive
        /\ (GenericCalled /\ resource # "" /\ ~nodeInfo.node.nil)
                => (genericCalc.called <=> positive)
        /\ (ScarceCalled /\ ~nodeInfo.node.nil)
                => (scarceCalc.called <=> positive)

\* only an init container's limit is above zero; a regular container holds a
\* zero request
C23_Witness ==
    /\ \E c \in SeqRange(pod.Spec.Containers) :
            resource \in DOMAIN c.Requests /\ c.Requests[resource] = 0
    /\ \A c \in SeqRange(pod.Spec.Containers) : ~containerRequestsResource(c, resource)
    /\ \E c \in SeqRange(pod.Spec.InitContainers) :
            resource \in DOMAIN c.Limits /\ c.Limits[resource] > 0
    /\ \A c \in SeqRange(pod.Spec.InitContainers) : resource \notin DOMAIN c.Requests
    /\ genericCalc.called
    /\ scarceCalc.called

\* the pod declares a limit above zero for the resource and no request
LimitOnly(p, res) ==
    /\ \A c \in AllContainers(p) : res \notin DOMAIN c.Requests
    /\ \E c \in AllContainers(p) : MapGet(c.Limits, res) > 0

DemandFree(result, used, available) ==
    /\ Succeeded(result)
    /\ result.Score = (used * 10) \div available

(* C24: a pod that declares only a limit above zero for the resource, and no
   request, is scored by both scorers with demand 0: on a node with positive
   allocatable its score is floor(used * 10 / available). *)
C24_LimitOnlyPodScoredWithoutDemand ==
    LET used == RequestedTotal(nodeInfo, resource)
        available == AllocatableTotal(nodeInfo, resource)
    IN  (/\ resource # ""
         /\ ~nodeInfo.node.nil
         /\ LimitOnly(pod, resource)
         /\ available > 0)
            => /\ GenericCalled => DemandFree(genericResult, used, available)
               /\ ScarceCalled => DemandFree(scarceResult, used, available)

----------------------------------------------------------------------------
(* Properties of a scoring pass, continued *)

(* C25: the score of a node is computed from that node's own state only: the
   used amount counts the pods bound to that node and no pod of another
   node, and the divisor is that node's allocatable. A pod requesting 2
   scores 2 on an empty machine with allocatable 8, whatever is bound to the
   other machine. *)
C25_OwnNodeStateOnly ==
    \A a \in Machines :
        LET own == calls[a].nodeInfo
        IN  (pc[a] = "done" /\ locals[a].called)
                => /\ locals[a].usedResource =
                        IF scorer = "scarce" THEN BoundRequests(own, resource)
                        ELSE usedResourceOf(own, resource)
                   /\ locals[a].available = ScalarAllocatable(own, resource)
                   /\ (/\ resource = ExtendedResource
                       /\ calls[a].pod = scareResourcePod1(ExtendedResource)
                       /\ own.pods = <<>>
                       /\ ScalarAllocatable(own, resource) = 8)
                        => Succeeded(results[a]) /\ results[a].Score = 2

\* the third case of the test: a pod requesting 2 is bound to machine2
C25_Witness ==
    /\ scorer = "scarce"
    /\ resource = ExtendedResource
    /\ \A m \in Machines :
            pc[m] = "done" /\ calls[m].pod = scareResourcePod1(ExtendedResource)
    /\ calls["machine1"].nodeInfo.pods = <<>>
    /\ ScalarAllocatable(calls["machine1"].nodeInfo, resource) = 8
    /\ Len(calls["machine2"].nodeInfo.pods) = 1
    /\ ScalarAllocatable(calls["machine2"].nodeInfo, resource) = 4
    /\ results["machine1"] = Returned("machine1", 2)
    /\ results["machine2"] = Returned("machine2", 10)

----------------------------------------------------------------------------
(* Properties of one call, continued *)

(* C26: in the generic scorer the used amount and the demand of "cpu" are
   both amounts in millicores when they are added: a pod requesting 500m on
   a node with 1000m requested makes used + demand 1500. *)
C26_CpuAmountsInMillicores ==
    (genericCalc.called /\ resource = "cpu")
        => genericCalc.usedResource + genericCalc.reqResource
                = RequestedTotal(nodeInfo, "cpu") + PeakDemand(pod, "cpu")

\* a resource neither scorer is configured for in any run
OtherResource == "example.com/bar"

\* the list with every entry of another resource than res set to v, and an
\* entry of OtherResource added
OtherEntriesSet(list, res, v) ==
    [n \in DOMAIN list \cup {OtherResource} |-> IF n = res THEN list[n] ELSE v]

ContainersWithOthers(containers, res, v) ==
    [i \in DOMAIN containers |->
        [Requests |-> OtherEntriesSet(containers[i].Requests, res, v),
         Limits |-> OtherEntriesSet(containers[i].Limits, res, v)]]

PodWithOthers(p, res, v) ==
    [Spec |-> [Containers |-> ContainersWithOthers(p.Spec.Containers, res, v),
               InitContainers |-> ContainersWithOthers(p.Spec.InitContainers, res, v)]]

TotalsWithOthers(totals, res, v) ==
    [MilliCPU |-> IF res = "cpu" THEN totals.MilliCPU ELSE v,
     Memory |-> IF res = "memory" THEN totals.Memory ELSE v,
     EphemeralStorage |->
        IF res = "ephemeral-storage" THEN totals.EphemeralStorage ELSE v,
     ScalarResources |-> OtherEntriesSet(totals.ScalarResources, res, Value(v))]

NodeInfoWithOthers(ni, res, v) ==
    [node |-> ni.node,
     requestedResource |-> TotalsWithOthers(ni.requestedResource, res, v),
     allocatableResource |-> TotalsWithOthers(ni.allocatableResource, res, v),
     pods |-> [i \in DOMAIN ni.pods |-> PodWithOthers(ni.pods[i], res, v)]]

\* quantities the other resources are set to
OtherAmounts == {0, 7000}

(* C27: the result of a scorer configured for resource r is the same for two
   runs that agree on every quantity of r (the pod's requests and limits,
   the node's used and allocatable, the bound pods' requests) and differ in
   the quantities of the other resources. *)
C27_OtherResourcesIrrelevant ==
    \A v \in OtherAmounts :
        LET p == PodWithOthers(pod, resource, v)
            ni == NodeInfoWithOthers(nodeInfo, resource, v)
        IN  /\ GenericCalled =>
                genericResult = ResourceBinPackingPriorityMapCall(resource, p, ni).result
            /\ ScarceCalled =>
                scarceResult
                    = ScarceResourceBinPackingPriorityMapCall(resource, p, ni).result

C27_Witness ==
    /\ resource = ExtendedResource
    /\ nodeInfo.pods # <<>>
    /\ pod.Spec.InitContainers # <<>>
    /\ Succeeded(genericResult)
    /\ genericResult.Score > MaxPriority
    /\ Succeeded(scarceResult)
    /\ scarceResult.Score > 0

\* steps, in milli-units, a request is raised by
Raises == {500, 1000}

\* the pod with the request of its i-th regular container raised by d
RequestRaised(p, res, i, d) ==
    [Spec |->
        [Containers |->
            [p.Spec.Containers EXCEPT ![i].Requests =
                [n \in DOMAIN @ \cup {res} |-> IF n = res THEN MapGet(@, res) + d ELSE @[n]]],
         InitContainers |-> p.Spec.InitContainers]]

NotLowered(before, after) ==
    Succeeded(before) => Succeeded(after) /\ after.Score >= before.Score

(* C28: for both scorers, on a node with positive allocatable, raising the
   request of one regular container of a pod that already requests the
   resource never lowers the score of the pod on that node. *)
C28_MonotoneInDemand ==
    (/\ TouchesResource(pod, resource)
     /\ ~nodeInfo.node.nil
     /\ AllocatableTotal(nodeInfo, resource) > 0)
        => \A i \in DOMAIN pod.Spec.Containers, d \in Raises :
            LET raised == RequestRaised(pod, resource, i, d)
            IN  /\ GenericCalled =>
                    NotLowered(genericResult,
                               ResourceBinPackingPriorityMapCall(resource, raised,
                                                                 nodeInfo).result)
                /\ ScarceCalled =>
                    NotLowered(scarceResult,
                               ScarceResourceBinPackingPriorityMapCall(
                                    resource, raised, nodeInfo).result)

C28_Witness ==
    /\ TouchesResource(pod, resource)
    /\ pod.Spec.InitContainers # <<>>
    /\ Succeeded(genericResult)
    /\ Succeeded(scarceResult)
    /\ \E i \in DOMAIN pod.Spec.Containers :
        LET raised == RequestRaised(pod, resource, i, 1000)
        IN  /\ ResourceBinPackingPriorityMapCall(resource, raised, nodeInfo).result.Score
                    = genericResult.Score
            /\ ScarceResourceBinPackingPriorityMapCall(resource, raised,
                                                       nodeInfo).result.Score
                    > scarceResult.Score

\* the steps of main after the one named, none of which has been performed
NothingAfterRegisterIsolator ==
    /\ wg = 0
    /\ servePc = "none"
    /\ client = "none"
    /\ sigPc = "none"

NothingAfterClientCreation ==
    /\ client = "none"
    /\ sigPc = "none"

NothingAfterClientRegister ==
    /\ client = "created"
    /\ sigPc = "none"

(* C29: in the iso-client the isolator is registered before its server is
   started, the server is started before the client is created and
   registered with the event dispatcher; when registering the isolator,
   creating the client or registering the client fails, the process has
   ended and no later step of main has been performed; and main has not
   returned unless the serving goroutine has finished. *)
C29_StartupOrder ==
    /\ servePc # "none" => isolator = "registered"
    /\ client # "none" => servePc # "none"
    /\ sigPc # "none" => client # "none" /\ client # "created"
    /\ process = "Cannot register isolator" =>
            isolator = "unregistered" /\ NothingAfterRegisterIsolator
    /\ process = "Cannot create eventDispatcherClient" =>
            servePc # "none" /\ NothingAfterClientCreation
    /\ process = "Failed to register isolator" =>
            servePc # "none" /\ NothingAfterClientRegister
    /\ mainPc = "returned" => servePc = "finished"

\* the client is registered with the server started, the serving goroutine
\* has finished and main is waiting
C29_Witness ==
    /\ isolator = "registered"
    /\ client = "registered"
    /\ servePc = "finished"
    /\ mainPc = "blocked in wg.Wait"
    /\ process = "running"

\* the kube-reserved entries of a configuration; a nil map has none
KubeReservedOf(cfg) ==
    IF cfg.KubeReserved = nilMap THEN EmptyList ELSE maps[cfg.KubeReserved]

\* the fields of a configuration that KubeletConfig does not name
OtherFields(cfg) == [cfg EXCEPT !.CPUManagerPolicy = "", !.CPUManagerReconcilePeriod = 0,
                                !.KubeReserved = nilMap]

\* a step leaves the caller's configuration as it was: its fields, and the
\* entries of the map its KubeReserved refers to
InputUnchanged ==
    /\ oldCfg' = oldCfg
    /\ oldCfg.KubeReserved # nilMap =>
            /\ oldCfg.KubeReserved \in DOMAIN maps'
            /\ maps'[oldCfg.KubeReserved] = maps[oldCfg.KubeReserved]

\* what was returned, against the configuration given
ResultAsDescribed ==
    LET result == returned.newCfg
        given == KubeReservedOf(oldCfg)
        entries == KubeReservedOf(result)
    IN  /\ returned.err = "nil"
        /\ result.KubeReserved # nilMap
        /\ result.KubeReserved # oldCfg.KubeReserved
        /\ result.CPUManagerPolicy = "static"
        /\ result.CPUManagerReconcilePeriod = 10
        /\ "cpu" \in DOMAIN entries
        /\ entries["cpu"] = IF "cpu" \in DOMAIN given THEN given["cpu"] ELSE "200m"
        /\ DOMAIN entries \ {"cpu"} = DOMAIN given \ {"cpu"}
        /\ \A k \in DOMAIN given : entries[k] = given[k]
        /\ OtherFields(result) = OtherFields(oldCfg)

(* C30: KubeletConfig returns a new configuration and no step of it changes
   the configuration it was given, nor the entries of that configuration's
   kube-reserved map; the result has CPU manager policy static and
   reconcile period 10 seconds, its kube-reserved "cpu" entry is "200m" when
   the input had none and the input's value otherwise, and every other
   kube-reserved entry and every other field equals the input's. *)
C30_NewConfigInputUntouched ==
    /\ [](cfgPc = "returned" => ResultAsDescribed)
    /\ [][InputUnchanged]_vars

\* returned for an input whose kube-reserved map had a memory entry and no
\* cpu entry, and whose policy and period were other than the ones set
C30_Witness ==
    /\ cfgPc = "returned"
    /\ oldCfg.CPUManagerPolicy = "none"
    /\ oldCfg.CPUManagerReconcilePeriod = 30
    /\ oldCfg.KubeReserved # nilMap
    /\ DOMAIN KubeReservedOf(oldCfg) = {"memory"}
    /\ DOMAIN KubeReservedOf(returned.newCfg) = {"cpu", "memory"}

====
